---- MODULE Spec2Model ----
(***************************************************************************)
(* evtx_to_xml (src/src/main.rs): main() loads the owned users, parses the *)
(* date bounds, opens the output file behind Mutex<BufWriter<File>>, and   *)
(* calls process_evtx_file for the input file or for every .evtx entry of  *)
(* the input directory.  process_evtx_file hands the records of one file   *)
(* to the rayon pool (par_bridge + for_each); every closure call filters   *)
(* one record and, when it matches, writes it under the lock.              *)
(*                                                                         *)
(* Option<T> is a sequence: None is <<>>, Some(x) is <<x>>.                *)
(***************************************************************************)
EXTENDS Integers, Sequences, FiniteSets, TLC

\* ------------------------------------------------------------- bounds
MaxThreads == 2
MaxFiles == 2
MaxRecs == 2
MaxDay == 1
TicksPerDay == 2
MaxData == 2
BufCap == 1

None == <<>>
Some(x) == <<x>>

\* ---------------------------------------------------- pure functions
\* const EVENT_IDS (line 43)
EVENT_IDS == {4624, 4625, 4768, 4769, 4776, 4672}

\* A payload is the XML text of one record, held by what the Event schema
\* (lines 211-253) reads of it:
\*   event_id     Option: the System/EventID element as a u16
\*   event_data   whether the EventData element is there (required, no default)
\*   time_created Option: the TimeCreated element's SystemTime string
\*   data         the Data elements of EventData, in document order
\* A SystemTime string either has the format "%Y-%m-%d %H:%M:%S%.f UTC"
\* (fmt, with its day and its tick within the day) or it has not.

\* serde_xml_rs::from_str::<Event>: Err when a required element is missing
from_str_ok(xml) == xml.event_id # None /\ xml.event_data

\* get_event_id_from_xml (lines 151-158)
get_event_id_from_xml(xml) ==
    IF from_str_ok(xml) THEN Some(xml.event_id[1]) ELSE None

FirstTarget(data) ==
    LET hits == {i \in 1..Len(data) : data[i].name = "TargetUserName"}
    IN  IF hits = {} THEN None
        ELSE Some(data[CHOOSE i \in hits : \A j \in hits : i <= j].value)

\* get_target_user_name_from_xml (lines 161-170): the first Data named
\* TargetUserName
get_target_user_name_from_xml(xml) ==
    IF from_str_ok(xml) THEN FirstTarget(xml.data) ELSE None

\* parse_time_created (lines 204-209)
parse_time_created(time_str) ==
    IF time_str.fmt THEN Some(time_str.day * TicksPerDay + time_str.tick)
    ELSE None

\* get_time_created_from_xml (lines 173-180)
get_time_created_from_xml(xml) ==
    IF from_str_ok(xml) /\ xml.time_created # None
    THEN parse_time_created(xml.time_created[1])
    ELSE None

\* in_date_range with the bounds themselves shut out
in_date_range_exclusive(event_time, start, end) ==
    IF start # None /\ event_time <= start[1] THEN FALSE
    ELSE IF end # None /\ event_time >= end[1] THEN FALSE
    ELSE TRUE

\* in_date_range (lines 183-195)
in_date_range(event_time, start, end) ==
    IF start # None /\ event_time < start[1] THEN FALSE
    ELSE IF end # None /\ event_time > end[1] THEN FALSE
    ELSE TRUE

\* a bound that is taken for the last instant of its day
parse_date_end_of_day(date_str) ==
    [panic |-> ~date_str.fmt,
     value |-> date_str.day * TicksPerDay + (TicksPerDay - 1)]

\* parse_date (lines 198-201): a date string is "YYYY-MM-DD" (fmt, with its
\* day) or it is not, and then .expect panics
parse_date(date_str) ==
    [panic |-> ~date_str.fmt, value |-> date_str.day * TicksPerDay]

Contains(list, x) == \E i \in 1..Len(list) : list[i] = x

\* membership that ignores the case of the first letter
ContainsFolded(list, x) ==
    LET Fold(s) == IF s = "Alice" THEN "alice" ELSE s
    IN  \E i \in 1..Len(list) : Fold(list[i]) = Fold(x)

\* owned_users.contains(&target_user_name) (line 131)
owned_users_contains(list, x) == Contains(list, x)

\* The closure's decision for one decoded payload (lines 117-137): TRUE when
\* it goes on to lock the writer and write the payload.
closure_writes(xml, users, start, end) ==
    LET event_id == get_event_id_from_xml(xml)
        event_time == get_time_created_from_xml(xml)
        target == get_target_user_name_from_xml(xml)
    IN  /\ event_id # None
        /\ event_id[1] \in EVENT_IDS
        /\ event_time # None
        /\ in_date_range(event_time[1], start, end)
        /\ \/ users = <<>>
           \/ /\ target # None
              /\ owned_users_contains(users, target[1])


\* ------------------------------------------------------------ inputs
\* --users-file: absent, or a path to a file that cannot be read, or to a
\* file with these lines
UsersFileArgs ==
    {None, Some([readable |-> FALSE, lines |-> <<>>]),
     Some([readable |-> TRUE, lines |-> <<>>]),
     Some([readable |-> TRUE, lines |-> <<"alice">>])}

Days == 0..MaxDay
Ticks == 0..(TicksPerDay - 1)

\* --start-date / --end-date: absent, or not a date, or a date
DateArgs ==
    {None, Some([fmt |-> FALSE, day |-> 0])}
        \cup {Some([fmt |-> TRUE, day |-> d]) : d \in Days}

SystemTimes ==
    {[fmt |-> FALSE, day |-> 0, tick |-> 0]}
        \cup {[fmt |-> TRUE, day |-> d, tick |-> t] : d \in Days, t \in Ticks}

DataElems ==
    {[name |-> "TargetUserName", value |-> "alice"],
     [name |-> "TargetUserName", value |-> "Alice"],
     [name |-> "SubjectUserName", value |-> "alice"]}

DataLists == UNION {[1..n -> DataElems] : n \in 0..MaxData}

\* every payload the filter chain can tell apart
Payloads ==
    [event_id : {None, Some(4624), Some(4672), Some(4688)},
     event_data : BOOLEAN,
     time_created : {None} \cup {Some(t) : t \in SystemTimes},
     data : DataLists]

Ok(xml) == [ok |-> TRUE, data |-> xml]

NoXml == [event_id |-> None, event_data |-> FALSE, time_created |-> None, data |-> <<>>]

\* a decode error of the evtx parser
Err == [ok |-> FALSE, data |-> NoXml]

AllResults == {Err} \cup {Ok(x) : x \in Payloads}

\* the decode results of the concurrent runs: a decode error, a payload that
\* does not deserialize, a logon of alice at the start of day 0
SomeResults ==
    {Err,
     Ok([event_id |-> None, event_data |-> TRUE, time_created |-> None, data |-> <<>>]),
     Ok([event_id |-> Some(4624), event_data |-> TRUE,
         time_created |-> Some([fmt |-> TRUE, day |-> 0, tick |-> 0]),
         data |-> <<[name |-> "TargetUserName", value |-> "alice"]>>])}

\* ------------------------------------------------------------- state
VARIABLES
    args,         \* Args (lines 16-40): users_file, start_date, end_date, threads
    pc,           \* where main() is
    status,       \* "running", "ok" (Ok(()) at line 97), "err" (the ? of line 75), "panic"
    owned_users,  \* line 56
    start_date,   \* line 65
    end_date,     \* line 66
    out_opened,   \* the output file was created or truncated by this run (line 75)
    disk,         \* the bytes of the output file
    buf,          \* the bytes held by the BufWriter (line 76)
    lock,         \* the worker holding the Mutex of line 76, 0 when free
    poisoned,     \* the Mutex is poisoned
    sink_failed,  \* an I/O operation on the output file has failed
    input_kind,   \* what line 80 / 89 found at the input path
    entries,      \* what read_dir has yielded so far (line 82): the extension
                  \* of an entry, or "error"
    files,        \* the calls of process_evtx_file so far: the directory entry
                  \* each is for (0: the input path), and what it decoded
    wpc,          \* where each pool thread is in the for_each of lines 108-147
    wrec,         \* the index (in its file) of the record a thread holds
    panicked      \* a closure call of the running for_each has panicked

vars == <<args, pc, status, owned_users, start_date, end_date, out_opened, disk,
          buf, lock, poisoned, sink_failed, input_kind, entries, files, wpc,
          wrec, panicked>>

cfg_vars == <<args, owned_users, start_date, end_date>>
sink_vars == <<out_opened, disk, buf, lock, poisoned, sink_failed>>
input_vars == <<input_kind, entries, files>>
pool_vars == <<wpc, wrec, panicked>>

\* the threads the pool can have, and those it has (lines 50-53)
Pool == 1..MaxThreads
Workers == 1..args.threads

\* a byte run of the output: the payload of record i of file f is <<f, i>>,
\* the line terminator is NL, what the file held before the run is OLD
NL == <<0, 0>>
OLD == <<0, 1>>

ArgsOf(users, dates, threads) ==
    [users_file : users, start_date : dates, end_date : dates, threads : threads]

InitRest ==
    /\ pc = "load_users"
    /\ status = "running"
    /\ owned_users = <<>>
    /\ start_date = None
    /\ end_date = None
    /\ out_opened = FALSE
    /\ disk = <<OLD>>
    /\ buf = <<>>
    /\ lock = 0
    /\ poisoned = FALSE
    /\ sink_failed = FALSE
    /\ input_kind = "unknown"
    /\ entries = <<>>
    /\ files = <<>>
    /\ wpc = [w \in Pool |-> "off"]
    /\ wrec = [w \in Pool |-> 0]
    /\ panicked = FALSE

\* the runs of every pool size over one or several files: no filter is set
\* (the filters are the matter of InitFilter), or the configuration is wrong
Init ==
    /\ args \in ArgsOf({None, Some([readable |-> FALSE, lines |-> <<>>])},
                        {None, Some([fmt |-> FALSE, day |-> 0])},
                        1..MaxThreads)
    /\ InitRest

\* the runs of one thread over one file with one record, under every
\* setting of the filters
InitFilter ==
    /\ args \in ArgsOf(UsersFileArgs, DateArgs, {1})
    /\ InitRest


\* ------------------------------------------------------ main, startup
\* main panics before the writer exists: nothing to unwind
PanicAtStartup ==
    /\ status' = "panic"
    /\ pc' = "exit"

\* lines 56-62: load_owned_users (lines 256-263) panics on a file it cannot
\* open or read
LoadUsers ==
    /\ pc = "load_users"
    /\ IF args.users_file = None
       THEN /\ owned_users' = <<>>
            /\ pc' = "start_date"
            /\ UNCHANGED status
       ELSE IF args.users_file[1].readable
       THEN /\ owned_users' = args.users_file[1].lines
            /\ pc' = "start_date"
            /\ UNCHANGED status
       ELSE /\ PanicAtStartup
            /\ UNCHANGED owned_users
    /\ UNCHANGED <<args, start_date, end_date, sink_vars, input_vars, pool_vars>>

\* line 65
ParseStartDate ==
    /\ pc = "start_date"
    /\ IF args.start_date = None
       THEN /\ start_date' = None
            /\ pc' = "end_date"
            /\ UNCHANGED status
       ELSE IF parse_date(args.start_date[1]).panic
       THEN /\ PanicAtStartup
            /\ UNCHANGED start_date
       ELSE /\ start_date' = Some(parse_date(args.start_date[1]).value)
            /\ pc' = "end_date"
            /\ UNCHANGED status
    /\ UNCHANGED <<args, owned_users, end_date, sink_vars, input_vars, pool_vars>>

\* line 66
ParseEndDate ==
    /\ pc = "end_date"
    /\ IF args.end_date = None
       THEN /\ end_date' = None
            /\ pc' = "open_output"
            /\ UNCHANGED status
       ELSE IF parse_date(args.end_date[1]).panic
       THEN /\ PanicAtStartup
            /\ UNCHANGED end_date
       ELSE /\ end_date' = Some(parse_date(args.end_date[1]).value)
            /\ pc' = "open_output"
            /\ UNCHANGED status
    /\ UNCHANGED <<args, owned_users, start_date, sink_vars, input_vars, pool_vars>>

\* the output opened before the configuration is looked at
OpenOutputFirst ==
    /\ pc = "load_users"
    /\ ~out_opened
    /\ out_opened' = TRUE
    /\ disk' = <<>>
    /\ UNCHANGED <<cfg_vars, pc, status, buf, lock, poisoned, sink_failed,
                   input_vars, pool_vars>>

\* the output opened without truncate(true): what the file held stays
OpenOutputAppend ==
    /\ pc = "open_output"
    /\ \E io_ok \in BOOLEAN :
         IF io_ok
         THEN /\ out_opened' = TRUE
              /\ pc' = "examine"
              /\ UNCHANGED <<status, sink_failed, disk>>
         ELSE /\ sink_failed' = TRUE
              /\ status' = "err"
              /\ pc' = "exit"
              /\ UNCHANGED <<out_opened, disk>>
    /\ UNCHANGED <<cfg_vars, buf, lock, poisoned, input_vars, pool_vars>>

\* lines 71-76: create + truncate; on an error the ? returns Err from main
OpenOutput ==
    /\ pc = "open_output"
    /\ \E io_ok \in BOOLEAN :
         IF io_ok
         THEN /\ out_opened' = TRUE
              /\ disk' = <<>>
              /\ pc' = "examine"
              /\ UNCHANGED <<status, sink_failed>>
         ELSE /\ sink_failed' = TRUE
              /\ status' = "err"
              /\ pc' = "exit"
              /\ UNCHANGED <<out_opened, disk>>
    /\ UNCHANGED <<cfg_vars, buf, lock, poisoned, input_vars, pool_vars>>

\* main panics or returns while it owns the writer: the writer is dropped
\* on the way out
LeaveMain(how) ==
    /\ status' = how
    /\ pc' = "drop"

\* line 80, is_dir, then read_dir(..).expect (line 82)
ExamineDir ==
    /\ pc = "examine"
    /\ input_kind' = "dir"
    /\ \E io_ok \in BOOLEAN :
         IF io_ok
         THEN pc' = "dir" /\ UNCHANGED <<status, entries>>
         ELSE LeaveMain("panic") /\ entries' = <<"error">>
    /\ UNCHANGED <<cfg_vars, sink_vars, files, pool_vars>>

\* line 89, is_file
ExamineFile ==
    /\ pc = "examine"
    /\ input_kind' = "file"
    /\ pc' = "open_evtx"
    /\ UNCHANGED <<cfg_vars, status, sink_vars, entries, files, pool_vars>>

\* lines 92-94: neither
ExamineInvalid ==
    /\ pc = "examine"
    /\ input_kind' = "invalid"
    /\ pc' = "complete"
    /\ UNCHANGED <<cfg_vars, status, sink_vars, entries, files, pool_vars>>

\* the extensions of the entries of a directory
Extensions == {"evtx", "txt"}

\* a loop that takes every entry for a source file
DirNextAny ==
    /\ pc = "dir"
    /\ \E next \in {"end"} \cup Extensions :
         IF next = "end"
         THEN /\ pc' = "complete"
              /\ UNCHANGED entries
         ELSE /\ Len(entries) < MaxFiles
              /\ entries' = Append(entries, next)
              /\ pc' = "open_evtx"
    /\ UNCHANGED <<cfg_vars, status, sink_vars, input_kind, files, pool_vars>>

\* lines 82-88: the next entry of the directory; entry.expect panics on a
\* read error
DirNext ==
    /\ pc = "dir"
    /\ \E next \in {"end", "error"} \cup Extensions :
         IF next = "end"
         THEN /\ pc' = "complete"
              /\ UNCHANGED <<status, entries>>
         ELSE /\ Len(entries) < MaxFiles
              /\ entries' = Append(entries, next)
              /\ IF next = "error"
                 THEN LeaveMain("panic")
                 ELSE /\ pc' = IF next = "evtx" THEN "open_evtx" ELSE "dir"
                      /\ UNCHANGED status
    /\ UNCHANGED <<cfg_vars, sink_vars, input_kind, files, pool_vars>>

\* lines 102-105: EvtxParser::from_path(..).expect, then for_each starts
OpenEvtx ==
    /\ pc = "open_evtx"
    /\ \E opens \in BOOLEAN :
         /\ files' = Append(files, [entry |-> Len(entries), opened |-> opens,
                                    recs |-> <<>>, exhausted |-> FALSE])
         /\ IF opens
            THEN /\ pc' = "par"
                 /\ wpc' = [w \in Pool |-> IF w \in Workers THEN "idle" ELSE "off"]
                 /\ UNCHANGED status
            ELSE /\ LeaveMain("panic")
                 /\ UNCHANGED wpc
    /\ UNCHANGED <<cfg_vars, sink_vars, input_kind, entries, wrec, panicked>>


\* --------------------------------------- the pool, lines 108-147
cur == Len(files)

RECURSIVE Decoded(_)
\* the number of decode results of the first n files
Decoded(n) == IF n = 0 THEN 0 ELSE Decoded(n - 1) + Len(files[n].recs)

\* BufWriter::write_all of one byte run: it goes to the buffer; a full buffer
\* is first written to the file, and that write can fail after `done` byte
\* runs of it (the runs written leave the buffer)
writer_write(run, io_ok, done) ==
    IF Len(buf) < BufCap
    THEN [disk |-> disk, buf |-> Append(buf, run), err |-> FALSE]
    ELSE IF io_ok
    THEN [disk |-> disk \o buf, buf |-> <<run>>, err |-> FALSE]
    ELSE [disk |-> disk \o SubSeq(buf, 1, done),
          buf |-> SubSeq(buf, done + 1, Len(buf)), err |-> TRUE]

\* BufWriter::flush_buf, as Drop runs it
writer_flush(io_ok, done) ==
    IF io_ok
    THEN [disk |-> disk \o buf, buf |-> <<>>, err |-> FALSE]
    ELSE [disk |-> disk \o SubSeq(buf, 1, done),
          buf |-> SubSeq(buf, done + 1, Len(buf)), err |-> TRUE]

\* par_bridge: a pool thread takes the next item of parser.records() (the
\* iterator is behind par_bridge's own lock), or finds it exhausted
FetchFrom(w, results, max) ==
    /\ pc = "par"
    /\ wpc[w] = "idle"
    /\ IF files[cur].exhausted
       THEN /\ wpc' = [wpc EXCEPT ![w] = "done"]
            /\ UNCHANGED <<files, wrec>>
       ELSE \E more \in BOOLEAN :
              IF more
              THEN /\ Decoded(cur) < max
                   /\ \E r \in results :
                        files' = [files EXCEPT ![cur].recs = Append(@, r)]
                   /\ wrec' = [wrec EXCEPT ![w] = Len(files[cur].recs) + 1]
                   /\ wpc' = [wpc EXCEPT ![w] = "have"]
              ELSE /\ files' = [files EXCEPT ![cur].exhausted = TRUE]
                   /\ wpc' = [wpc EXCEPT ![w] = "done"]
                   /\ UNCHANGED wrec
    /\ UNCHANGED <<cfg_vars, pc, status, sink_vars, input_kind, entries, panicked>>

\* a bridge that hands out again the item it handed out last
FetchAgain(w) ==
    /\ pc = "par"
    /\ wpc[w] = "idle"
    /\ IF files[cur].recs = <<>>
       THEN FetchFrom(w, SomeResults, MaxRecs)
       ELSE /\ wrec' = [wrec EXCEPT ![w] = Len(files[cur].recs)]
            /\ wpc' = [wpc EXCEPT ![w] = IF wrec[w] = wrec'[w] THEN "done" ELSE "have"]
            /\ files' = [files EXCEPT ![cur].exhausted = TRUE]
            /\ UNCHANGED <<cfg_vars, pc, status, sink_vars, input_kind, entries,
                           panicked>>

Fetch(w) == FetchFrom(w, SomeResults, MaxRecs)

\* the runs that draw one record from every payload the filters tell apart
FetchAny(w) == FetchFrom(w, AllResults, 1)

\* a closure that unwraps the decode result: a decode error panics
ClassifyUnwrap(w) ==
    /\ pc = "par"
    /\ wpc[w] = "have"
    /\ LET record == files[cur].recs[wrec[w]]
       IN  IF ~record.ok
           THEN /\ wpc' = [wpc EXCEPT ![w] = "panicked"]
                /\ panicked' = TRUE
           ELSE /\ UNCHANGED panicked
                /\ IF closure_writes(record.data, owned_users, start_date, end_date)
                   THEN wpc' = [wpc EXCEPT ![w] = "lock"]
                   ELSE wpc' = [wpc EXCEPT ![w] = "idle"]
    /\ UNCHANGED <<cfg_vars, pc, status, sink_vars, input_vars, wrec>>

\* lines 111-125, 128-131, 143-145: the closure up to the lock
Classify(w) ==
    /\ pc = "par"
    /\ wpc[w] = "have"
    /\ LET record == files[cur].recs[wrec[w]]
       IN  IF record.ok /\ closure_writes(record.data, owned_users, start_date, end_date)
           THEN wpc' = [wpc EXCEPT ![w] = "lock"]
           ELSE wpc' = [wpc EXCEPT ![w] = "idle"]
    /\ UNCHANGED <<cfg_vars, pc, status, sink_vars, input_vars, wrec, panicked>>

\* a writer that is shared without the Mutex: nobody waits
LockWithoutMutex(w) ==
    /\ pc = "par"
    /\ wpc[w] = "lock"
    /\ lock' = w
    /\ wpc' = [wpc EXCEPT ![w] = "payload"]
    /\ UNCHANGED <<cfg_vars, pc, status, out_opened, disk, buf, poisoned,
                   sink_failed, input_vars, wrec, panicked>>

\* try_lock in place of lock: a thread that finds the lock held gives its
\* record up
LockTry(w) ==
    /\ pc = "par"
    /\ wpc[w] = "lock"
    /\ IF lock # 0
       THEN /\ wpc' = [wpc EXCEPT ![w] = "idle"]
            /\ UNCHANGED <<lock, panicked>>
       ELSE IF poisoned
       THEN /\ wpc' = [wpc EXCEPT ![w] = "panicked"]
            /\ panicked' = TRUE
            /\ UNCHANGED lock
       ELSE /\ lock' = w
            /\ wpc' = [wpc EXCEPT ![w] = "payload"]
            /\ UNCHANGED panicked
    /\ UNCHANGED <<cfg_vars, pc, status, out_opened, disk, buf, poisoned,
                   sink_failed, input_vars, wrec>>

\* a lock() whose poisoning is ignored (the guard is taken out of the error)
LockIgnoresPoison(w) ==
    /\ pc = "par"
    /\ wpc[w] = "lock"
    /\ lock = 0
    /\ lock' = w
    /\ wpc' = [wpc EXCEPT ![w] = "payload"]
    /\ UNCHANGED <<cfg_vars, pc, status, out_opened, disk, buf, poisoned,
                   sink_failed, input_vars, wrec, panicked>>

\* output_writer.lock().unwrap() (lines 126, 133): waits while the lock is
\* held; panics on a poisoned lock
Lock(w) ==
    /\ pc = "par"
    /\ wpc[w] = "lock"
    /\ lock = 0
    /\ IF poisoned
       THEN /\ wpc' = [wpc EXCEPT ![w] = "panicked"]
            /\ panicked' = TRUE
            /\ UNCHANGED lock
       ELSE /\ lock' = w
            /\ wpc' = [wpc EXCEPT ![w] = "payload"]
            /\ UNCHANGED panicked
    /\ UNCHANGED <<cfg_vars, pc, status, out_opened, disk, buf, poisoned,
                   sink_failed, input_vars, wrec>>

\* the writer takes one byte run of writeln!(writer, "{}", xml_output);
\* .unwrap() panics on an error, with the guard alive: the lock is released
\* poisoned
WriteRun(w, run, then) ==
    \E io_ok \in BOOLEAN, done \in 0..(BufCap - 1) :
        LET res == writer_write(run, io_ok, done)
        IN  /\ disk' = res.disk
            /\ buf' = res.buf
            /\ IF res.err
               THEN /\ sink_failed' = TRUE
                    /\ poisoned' = TRUE
                    /\ lock' = 0
                    /\ panicked' = TRUE
                    /\ wpc' = [wpc EXCEPT ![w] = "panicked"]
               ELSE /\ wpc' = [wpc EXCEPT ![w] = then]
                    /\ lock' = IF then = "idle" THEN 0 ELSE lock
                    /\ UNCHANGED <<sink_failed, poisoned, panicked>>

\* lines 127, 134: the payload
WritePayload(w) ==
    /\ pc = "par"
    /\ wpc[w] = "payload"
    /\ lock = w
    /\ WriteRun(w, <<cur, wrec[w]>>, "newline")
    /\ UNCHANGED <<cfg_vars, pc, status, out_opened, input_vars, wrec>>

\* a guard that outlives the block: the lock stays held after the line
WriteNewlineKeepsLock(w) ==
    /\ pc = "par"
    /\ wpc[w] = "newline"
    /\ lock = w
    /\ \E io_ok \in BOOLEAN, done \in 0..(BufCap - 1) :
         LET res == writer_write(NL, io_ok, done)
         IN  /\ disk' = res.disk
             /\ buf' = res.buf
             /\ IF res.err
                THEN /\ sink_failed' = TRUE
                     /\ poisoned' = TRUE
                     /\ lock' = 0
                     /\ panicked' = TRUE
                     /\ wpc' = [wpc EXCEPT ![w] = "panicked"]
                ELSE /\ wpc' = [wpc EXCEPT ![w] = "idle"]
                     /\ UNCHANGED <<lock, sink_failed, poisoned, panicked>>
    /\ UNCHANGED <<cfg_vars, pc, status, out_opened, input_vars, wrec>>

\* lines 127, 134: the line terminator; the guard is dropped at the end of
\* the block
WriteNewline(w) ==
    /\ pc = "par"
    /\ wpc[w] = "newline"
    /\ lock = w
    /\ WriteRun(w, NL, "idle")
    /\ UNCHANGED <<cfg_vars, pc, status, out_opened, input_vars, wrec>>

\* rayon keeps the panic of a closure call for the caller of for_each; the
\* thread itself goes on with what is left of the bridge
Resume(w) ==
    /\ pc = "par"
    /\ wpc[w] = "panicked"
    /\ ~files[cur].exhausted
    /\ wpc' = [wpc EXCEPT ![w] = "idle"]
    /\ UNCHANGED <<cfg_vars, pc, status, sink_vars, input_vars, wrec, panicked>>

\* a for_each that returns as soon as one thread is through, the others
\* still at work
JoinEarly ==
    /\ pc = "par"
    /\ \E w \in Workers : wpc[w] \in {"done", "panicked"}
    /\ wpc' = [w \in Pool |-> IF wpc[w] \in {"done", "panicked"} THEN "off" ELSE wpc[w]]
    /\ panicked' = FALSE
    /\ IF panicked
       THEN LeaveMain("panic")
       ELSE /\ pc' = IF input_kind = "dir" THEN "dir" ELSE "complete"
            /\ UNCHANGED status
    /\ UNCHANGED <<cfg_vars, sink_vars, input_vars, wrec>>

\* for_each returns when every thread is through, and resumes the panic of
\* a closure call in main; else process_evtx_file returns to line 87 or 91
Join ==
    /\ pc = "par"
    /\ \A w \in Workers : wpc[w] \in {"done", "panicked"}
    /\ wpc' = [w \in Pool |-> "off"]
    /\ panicked' = FALSE
    /\ IF panicked
       THEN LeaveMain("panic")
       ELSE /\ pc' = IF input_kind = "dir" THEN "dir" ELSE "complete"
            /\ UNCHANGED status
    /\ UNCHANGED <<cfg_vars, sink_vars, input_vars, wrec>>

\* ------------------------------------------------------ main, the end
\* lines 96-97: the message, and Ok(())
Complete ==
    /\ pc = "complete"
    /\ LeaveMain("ok")
    /\ UNCHANGED <<cfg_vars, sink_vars, input_vars, pool_vars>>

\* output_writer goes out of scope (line 98, or the unwinding of a panic of
\* main): BufWriter's Drop flushes the buffer and ignores an error
DropWriter ==
    /\ pc = "drop"
    /\ \E io_ok \in BOOLEAN, done \in 0..(BufCap - 1) :
         LET res == writer_flush(io_ok, done)
         IN  /\ buf # <<>> \/ io_ok
             /\ done < Len(buf) \/ io_ok
             /\ disk' = res.disk
             /\ buf' = res.buf
             /\ sink_failed' = (sink_failed \/ res.err)
    /\ pc' = "exit"
    /\ UNCHANGED <<cfg_vars, status, out_opened, lock, poisoned, input_vars, pool_vars>>

Main ==
    \/ LoadUsers
    \/ ParseStartDate
    \/ ParseEndDate
    \/ OpenOutput
    \/ ExamineDir
    \/ ExamineFile
    \/ ExamineInvalid
    \/ DirNext
    \/ OpenEvtx
    \/ Join
    \/ Complete
    \/ DropWriter

Next ==
    \/ Main
    \/ \E w \in Pool :
         \/ Fetch(w)
         \/ Classify(w)
         \/ Lock(w)
         \/ WritePayload(w)
         \/ WriteNewline(w)
         \/ Resume(w)

Spec == Init /\ [][Next]_vars

\* the process does not stand still while one of its threads, main or a
\* thread of the pool, can take a step; nothing is assumed on which of them
\* the operating system runs
SpecLive == Init /\ [][Next]_vars /\ WF_vars(Next)

\* single-file, single-thread runs over every payload and every filter setting
NextFilter ==
    \/ LoadUsers
    \/ ParseStartDate
    \/ ParseEndDate
    \/ OpenOutput
    \/ ExamineFile
    \/ OpenEvtx
    \/ Join
    \/ Complete
    \/ DropWriter
    \/ \E w \in Pool :
         \/ FetchAny(w)
         \/ Classify(w)
         \/ Lock(w)
         \/ WritePayload(w)
         \/ WriteNewline(w)

SpecFilter == InitFilter /\ [][NextFilter]_vars


\* ------------------------------------------------------------ claims
\* the byte stream of the sink: what the file holds, then what the writer
\* still holds
Stream == disk \o buf

IsPayload(run) == run[1] > 0

RecordIds ==
    UNION {{<<f, i>> : i \in 1..Len(files[f].recs)} : f \in 1..Len(files)}

ResultOf(id) == files[id[1]].recs[id[2]]

\* the payload of record id, with its terminator, is in seq
HasLine(seq, id) ==
    \E k \in 1..(Len(seq) - 1) : seq[k] = id /\ seq[k + 1] = NL

Occurrences(seq, run) == Cardinality({k \in 1..Len(seq) : seq[k] = run})

\* main has returned Ok(()) and the process is gone
Completed == pc = "exit" /\ status = "ok"

AllowSet == {4624, 4625, 4768, 4769, 4776, 4672}

NoTimeBound == start_date = None /\ end_date = None

WithinBounds(t) ==
    /\ start_date = None \/ t >= start_date[1]
    /\ end_date = None \/ t <= end_date[1]

CategoryOk(xml) ==
    /\ get_event_id_from_xml(xml) # None
    /\ get_event_id_from_xml(xml)[1] \in AllowSet

ActorOk(xml) ==
    \/ owned_users = <<>>
    \/ /\ get_target_user_name_from_xml(xml) # None
       /\ \E n \in 1..Len(owned_users) :
            owned_users[n] = get_target_user_name_from_xml(xml)[1]

\* C1: once the run has completed (without an I/O failure of the sink), the
\* payload of a decoded record is a line of the output file if and only if
\* its category is one of the six, and no time bound is set or its timestamp
\* lies within the bounds, and the allow-list is empty or its actor is in it.
C1_OutputIffFilters ==
    (Completed /\ ~sink_failed) =>
        \A id \in RecordIds :
            ResultOf(id).ok =>
                LET xml == ResultOf(id).data
                    t == get_time_created_from_xml(xml)
                IN  HasLine(disk, id) <=>
                        /\ CategoryOk(xml)
                        /\ NoTimeBound \/ (t # None /\ WithinBounds(t[1]))
                        /\ ActorOk(xml)

\* C2: in the sink's byte stream every payload is followed at once by its own
\* terminator and every terminator follows a payload, so that no bytes of
\* another record come between the two; only the payload being written by
\* the holder of the lock, or the one whose write failed, can stand last
\* without its terminator.  A run that completes without an I/O failure
\* leaves complete lines only in the file.
C2_LinesAtomic ==
    out_opened =>
        /\ \A k \in 1..Len(Stream) :
              IF IsPayload(Stream[k])
              THEN k < Len(Stream) => Stream[k + 1] = NL
              ELSE Stream[k] = NL /\ k > 1 /\ IsPayload(Stream[k - 1])
        /\ (Stream # <<>> /\ IsPayload(Stream[Len(Stream)])) =>
              \/ \E w \in Workers :
                    /\ lock = w
                    /\ wpc[w] = "newline"
                    /\ Stream[Len(Stream)] = <<cur, wrec[w]>>
              \/ poisoned
        /\ (Completed /\ ~sink_failed) =>
              /\ buf = <<>>
              /\ Len(disk) % 2 = 0

\* C2's case: two threads, two lines of two records in the stream
C2_Witness ==
    /\ args.threads > 1
    /\ \E a \in RecordIds, b \in RecordIds :
          /\ a # b
          /\ HasLine(Stream, a)
          /\ HasLine(Stream, b)
          /\ \E w \in Workers : wpc[w] = "done" /\ wrec[w] = a[2]
          /\ \E w \in Workers : wpc[w] = "idle" /\ wrec[w] = b[2]

\* C3: every byte run of the sink that is a payload is the payload of a
\* decoded record, and the payload of a decoded record is there at most once.
C3_AtMostOnce ==
    out_opened =>
        /\ \A id \in RecordIds : Occurrences(Stream, id) <= 1
        /\ \A k \in 1..Len(Stream) :
              IsPayload(Stream[k]) => Stream[k] \in RecordIds

\* C3's case: two threads have each written a record of the same file
C3_Witness ==
    /\ args.threads > 1
    /\ \E a \in RecordIds, b \in RecordIds :
          /\ a[1] = b[1]
          /\ a[2] # b[2]
          /\ Occurrences(Stream, a) = 1
          /\ Occurrences(Stream, b) = 1
          /\ \E v \in Workers, w \in Workers :
                v # w /\ wrec[v] = a[2] /\ wrec[w] = b[2]

\* C4: once the run has completed, a decoded record whose category is one of
\* the six and that has no parseable creation timestamp is not in the output
\* when a start or end bound is set, and is in the output when no bound is
\* set and the actor filter passes it.
C4_NoTimestamp ==
    (Completed /\ ~sink_failed) =>
        \A id \in RecordIds :
            LET xml == ResultOf(id).data
            IN  (/\ ResultOf(id).ok
                 /\ CategoryOk(xml)
                 /\ get_time_created_from_xml(xml) = None) =>
                    /\ ~NoTimeBound => ~HasLine(disk, id)
                    /\ (NoTimeBound /\ ActorOk(xml)) => HasLine(disk, id)

\* a decoded record that the category and the time filter let through
SurvivedEarlier(xml) ==
    /\ CategoryOk(xml)
    /\ get_time_created_from_xml(xml) # None
    /\ WithinBounds(get_time_created_from_xml(xml)[1])

\* C5 as stated: a record that survived the earlier filters is in the output
\* if and only if the allow-list is empty or the record has some
\* TargetUserName field whose value is, as it stands, in the allow-list.
C5_AnyTargetField ==
    (Completed /\ ~sink_failed) =>
        \A id \in RecordIds :
            LET xml == ResultOf(id).data
            IN  (ResultOf(id).ok /\ SurvivedEarlier(xml)) =>
                    (HasLine(disk, id) <=>
                        \/ owned_users = <<>>
                        \/ \E d \in 1..Len(xml.data), n \in 1..Len(owned_users) :
                              /\ xml.data[d].name = "TargetUserName"
                              /\ xml.data[d].value = owned_users[n])

\* C5, amended: a record that survived the earlier filters is in the output
\* if and only if the allow-list is empty or the first TargetUserName field
\* of the record has a value that is, as it stands, in the allow-list.
C5_FirstTargetField ==
    (Completed /\ ~sink_failed) =>
        \A id \in RecordIds :
            LET xml == ResultOf(id).data
            IN  (ResultOf(id).ok /\ SurvivedEarlier(xml)) =>
                    (HasLine(disk, id) <=>
                        \/ owned_users = <<>>
                        \/ \E d \in 1..Len(xml.data), n \in 1..Len(owned_users) :
                              /\ xml.data[d].name = "TargetUserName"
                              /\ \A e \in 1..(d - 1) :
                                    xml.data[e].name # "TargetUserName"
                              /\ xml.data[d].value = owned_users[n])

\* C5's cases: with the allow-list {alice} a record of alice is in the
\* output, and a run with a record of Alice has completed without it
C5_Witness ==
    /\ Completed
    /\ ~sink_failed
    /\ owned_users = <<"alice">>
    /\ \E id \in RecordIds :
          /\ ResultOf(id).ok
          /\ SurvivedEarlier(ResultOf(id).data)
          /\ ResultOf(id).data.data = <<[name |-> "TargetUserName", value |-> "alice"]>>
          /\ HasLine(disk, id)

TimeValues == 0..((MaxDay + 1) * TicksPerDay - 1)

\* C6: for every timestamp and for the bounds of the run, present or absent,
\* in_date_range is true exactly when the timestamp is not before the start
\* bound and not after the end bound; and a record that the other filters
\* pass is in the output of a completed run exactly when that holds of its
\* timestamp.
C6_InDateRange ==
    /\ \A t \in TimeValues :
          in_date_range(t, start_date, end_date) <=>
              /\ start_date = None \/ t >= start_date[1]
              /\ end_date = None \/ t <= end_date[1]
    /\ (Completed /\ ~sink_failed) =>
          \A id \in RecordIds :
              LET xml == ResultOf(id).data
                  t == get_time_created_from_xml(xml)
              IN  (ResultOf(id).ok /\ CategoryOk(xml) /\ t # None /\ ActorOk(xml)) =>
                      (HasLine(disk, id) <=>
                          /\ start_date = None \/ t[1] >= start_date[1]
                          /\ end_date = None \/ t[1] <= end_date[1])

\* C6's case: a record stamped exactly at the start bound, which is also the
\* end bound, is in the output
C6_Witness ==
    /\ Completed
    /\ start_date # None
    /\ end_date = start_date
    /\ \E id \in RecordIds :
          /\ ResultOf(id).ok
          /\ get_time_created_from_xml(ResultOf(id).data) = start_date
          /\ HasLine(disk, id)


\* C7: a decode error, or a payload that does not deserialize, never makes a
\* closure call panic (a panic of a closure call comes from the sink alone),
\* and once main has returned Ok(()) every decoded record that the filters
\* pass is in the sink with its terminator, whatever came before or after
\* it in its file.
C7_DecodeErrorsIsolated ==
    /\ (panicked \/ \E w \in Workers : wpc[w] = "panicked") => sink_failed
    /\ status = "ok" =>
          \A id \in RecordIds :
              (/\ ResultOf(id).ok
               /\ closure_writes(ResultOf(id).data, owned_users, start_date, end_date))
                  => HasLine(Stream, id)

\* C7's case: the run has completed, and a record that follows a decode
\* error in its file is in the output
C7_Witness ==
    /\ Completed
    /\ \E id \in RecordIds :
          /\ id[2] > 1
          /\ ~ResultOf(<<id[1], id[2] - 1>>).ok
          /\ ResultOf(id).ok
          /\ HasLine(disk, id)

\* C8: after a failure of the sink (at the open, at a write, at the final
\* flush) the run never reports success.
C8_SinkFailureFatal == sink_failed => status # "ok"

\* C9: when the decoder cannot open a source file of a directory, the run
\* goes on: main is still running, at the next entry of the directory.
C9_OpenFailureSkipsFile ==
    [][(/\ pc = "open_evtx"
        /\ input_kind = "dir"
        /\ Len(files') > Len(files)
        /\ ~files'[Len(files')].opened)
          => (status' = "running" /\ pc' = "dir")]_vars

ConfigError ==
    \/ args.users_file # None /\ ~args.users_file[1].readable
    \/ args.start_date # None /\ ~args.start_date[1].fmt
    \/ args.end_date # None /\ ~args.end_date[1].fmt

\* C10: in a run whose users file cannot be read or whose start or end date
\* is not a date, the output file is never created or truncated, the input
\* path is never examined, no source file is opened and no record is read;
\* the run ends in a panic.
C10_ConfigErrorsFirst ==
    ConfigError =>
        /\ ~out_opened
        /\ disk = <<OLD>>
        /\ buf = <<>>
        /\ input_kind = "unknown"
        /\ entries = <<>>
        /\ files = <<>>
        /\ pc = "exit" => status = "panic"
        /\ pc \in {"load_users", "start_date", "end_date", "exit"}

\* C10's case: the run was stopped by the end date, the last of the
\* configuration to be looked at
C10_Witness ==
    /\ pc = "exit"
    /\ status = "panic"
    /\ args.users_file = None
    /\ args.start_date = None
    /\ args.end_date # None
    /\ ~args.end_date[1].fmt
    /\ ~out_opened


\* C11: the writer is flushed for the last time when main leaves, with no
\* pool thread at work any more and the lock free, and nothing is appended
\* to the sink afterwards; once the run has completed normally, every byte
\* appended to the sink is in the output file.
C11_FinalFlush ==
    /\ pc \in {"drop", "exit"} =>
          /\ \A w \in Pool : wpc[w] = "off"
          /\ lock = 0
    /\ Completed => (buf = <<>> /\ \A id \in RecordIds :
                                      HasLine(Stream, id) => HasLine(disk, id))


\* the calls of process_evtx_file for entry k of the directory
CallsFor(k) == {f \in 1..Len(files) : files[f].entry = k}

\* C12: for a directory input, process_evtx_file is called exactly once for
\* every entry read whose extension is evtx (the call for the entry just read
\* is the next step of main) and never for another entry; when the run has
\* completed there are as many calls as entries with the extension evtx.
C12_OnlyEvtxEntries ==
    input_kind = "dir" =>
        /\ \A k \in 1..Len(entries) :
              IF entries[k] = "evtx"
              THEN IF k = Len(entries) /\ pc = "open_evtx"
                   THEN CallsFor(k) = {}
                   ELSE Cardinality(CallsFor(k)) = 1
              ELSE CallsFor(k) = {}
        /\ \A f \in 1..Len(files) : files[f].entry \in 1..Len(entries)
        /\ Completed =>
              Len(files) = Cardinality({k \in 1..Len(entries) : entries[k] = "evtx"})

\* C12's case: a completed run over a directory with entries of the
\* extension evtx and another entry, as many files processed as the former
C12_Witness ==
    /\ Completed
    /\ input_kind = "dir"
    /\ Len(entries) = MaxFiles
    /\ \E k \in 1..Len(entries) : entries[k] # "evtx"
    /\ Len(files) = Len(entries) - 1
    /\ \A f \in 1..Len(files) : files[f].exhausted


\* the closure writes record id: a function of the decoded input and of the
\* configuration alone
Selected(id) ==
    /\ ResultOf(id).ok
    /\ closure_writes(ResultOf(id).data, owned_users, start_date, end_date)

\* C13: when the run is over and no write to the output has failed, the
\* output file holds the payload of every decoded record the filters select
\* exactly once, each with its terminator, and nothing else: the multiset of
\* its lines is determined by the input and the configuration, whatever the
\* pool size and the interleaving of the threads were.
C13_SameLines ==
    (pc = "exit" /\ out_opened /\ ~sink_failed) =>
        /\ \A id \in RecordIds :
              /\ Occurrences(disk, id) = IF Selected(id) THEN 1 ELSE 0
              /\ Selected(id) => HasLine(disk, id)
        /\ Len(disk) = 2 * Cardinality({id \in RecordIds : Selected(id)})

\* C13's case: a completed run of two threads whose output has the lines of
\* two records of one file in the reverse of the order they were decoded in
C13_Witness ==
    /\ Completed
    /\ ~sink_failed
    /\ args.threads = 2
    /\ disk = << <<1, 2>>, NL, <<1, 1>>, NL >>


\* nothing of the environment has failed: the configuration was read, the
\* output and every input were opened, and every write was taken
NoFailure ==
    /\ ~ConfigError
    /\ out_opened
    /\ ~sink_failed
    /\ \A k \in 1..Len(entries) : entries[k] # "error"
    /\ \A f \in 1..Len(files) : files[f].opened

\* C14: every run in which the process keeps taking the steps it can take
\* comes to its end, so that no thread is left waiting for the sink lock (main
\* ends only after for_each has joined every thread); the lock is held only
\* by a thread that is writing its line, which can always go on; and a run in
\* which nothing of the environment failed ends with Ok(()) and with every
\* selected record in the output.
C14_Terminates ==
    /\ <>(pc = "exit")
    /\ [](lock # 0 => (pc = "par" /\ wpc[lock] \in {"payload", "newline"}))
    /\ [](pc = "exit" /\ NoFailure =>
             /\ status = "ok"
             /\ \A id \in RecordIds : Selected(id) => HasLine(disk, id))

\* C14's case: a run over a directory of two files, with a pool of two
\* threads and a selected record, has come to its normal end
C14_Witness ==
    /\ pc = "exit"
    /\ NoFailure
    /\ args.threads = MaxThreads
    /\ Len(files) = MaxFiles
    /\ \E id \in RecordIds : Selected(id) /\ HasLine(disk, id)


\* the pool threads that are between lock() and the end of the guard's block
Holders == {w \in Pool : wpc[w] \in {"payload", "newline"}}

\* C15: at any time at most one pool thread is inside the guard's block, and
\* it is the owner of the lock; every step that makes the sink longer is a
\* write of that owner; and no step taken while the pool is at work changes
\* the allow-list or a time bound.
C15_OneHolder ==
    /\ [](Cardinality(Holders) <= 1 /\ \A w \in Holders : lock = w)
    /\ [][Len(Stream') > Len(Stream) =>
             (lock # 0 /\ wpc[lock] \in {"payload", "newline"}
                       /\ \A w \in Pool \ {lock} : wpc'[w] = wpc[w])]_vars
    /\ [][pc = "par" => UNCHANGED <<owned_users, start_date, end_date>>]_vars

\* C15's case: a thread owns the lock and has written its payload while
\* another thread waits in lock()
C15_Witness ==
    \E v \in Workers, w \in Workers :
        /\ lock = v
        /\ wpc[v] = "newline"
        /\ wpc[w] = "lock"
        /\ Stream # <<>>
        /\ Stream[Len(Stream)] = <<cur, wrec[v]>>


IsPrefix(s, t) == Len(s) <= Len(t) /\ SubSeq(t, 1, Len(s)) = s

\* C16: a write of a pool thread that fails leaves the lock poisoned; from
\* then on no step appends anything to the sink and no further file is
\* opened, what the sink held at the failure stays in it (the sink never
\* loses a byte once the output is open), and main ends in a panic.
C16_NoAppendAfterFailure ==
    /\ [][poisoned => (Stream' = Stream /\ Len(files') = Len(files))]_vars
    /\ [][out_opened => IsPrefix(Stream, Stream')]_vars
    /\ [](poisoned => sink_failed)
    /\ []((poisoned /\ pc \in {"drop", "exit"}) => status = "panic")

\* C16's case: the write of one thread has failed with bytes of earlier
\* writes in the sink, and the other thread, which had a selected record, has
\* panicked in lock() without writing it
C16_Witness ==
    /\ poisoned
    /\ Stream # <<>>
    /\ \E w \in Workers :
          /\ wpc[w] = "panicked"
          /\ Selected(<<cur, wrec[w]>>)
          /\ Occurrences(Stream, <<cur, wrec[w]>>) = 0
          /\ \E v \in Workers \ {w} :
                wpc[v] = "panicked" /\ Occurrences(Stream, <<cur, wrec[v]>>) = 1


\* the day and the instant within the day that the payload is stamped with
StampOf(xml) == xml.time_created[1]

\* the record is stamped at or after midnight of day d
NotBeforeMidnight(xml, d) == StampOf(xml).day >= d

\* the record is stamped at midnight of day d or before it
NotAfterMidnight(xml, d) ==
    \/ StampOf(xml).day < d
    \/ StampOf(xml).day = d /\ StampOf(xml).tick = 0

\* C17: a bound given as the date D is the instant D 00:00:00, for the end
\* as for the start; once the run has completed, a record with a well-formed
\* timestamp that the category and actor filters pass is in the output
\* exactly when it is not stamped before midnight of the start date (if one
\* is given) and not stamped after midnight of the end date (if one is
\* given): the first instant of the end date is in, every later one is out.
C17_MidnightBounds ==
    /\ start_date # None => start_date[1] = args.start_date[1].day * TicksPerDay
    /\ end_date # None => end_date[1] = args.end_date[1].day * TicksPerDay
    /\ (Completed /\ ~sink_failed) =>
          \A id \in RecordIds :
              LET xml == ResultOf(id).data
              IN  (/\ ResultOf(id).ok
                   /\ CategoryOk(xml)
                   /\ ActorOk(xml)
                   /\ xml.time_created # None
                   /\ StampOf(xml).fmt) =>
                      (HasLine(disk, id) <=>
                          /\ args.start_date = None
                                \/ NotBeforeMidnight(xml, args.start_date[1].day)
                          /\ args.end_date = None
                                \/ NotAfterMidnight(xml, args.end_date[1].day))

\* C17's case: with an end date and no start date, a record stamped at the
\* first instant of the end date is in the output of the completed run
C17_Witness ==
    /\ Completed
    /\ args.start_date = None
    /\ args.end_date # None
    /\ \E id \in RecordIds :
          /\ ResultOf(id).ok
          /\ ResultOf(id).data.time_created # None
          /\ StampOf(ResultOf(id).data).fmt
          /\ StampOf(ResultOf(id).data).day = args.end_date[1].day
          /\ StampOf(ResultOf(id).data).tick = 0
          /\ HasLine(disk, id)


\* C18: the pool is at work only between the opening of a file and the
\* return of for_each for it, and on that file alone: outside pc = "par"
\* every pool thread is through, every file started before the current one
\* was opened and read to its end with each of its selected records
\* already in the sink, and in the sink no payload of a file comes after a
\* payload of a file started later.
C18_FilesInSequence ==
    /\ pc # "par" => \A w \in Pool : wpc[w] = "off"
    /\ \A f \in 1..Len(files) :
          (f < cur \/ pc \in {"dir", "complete"}) =>
              /\ files[f].opened
              /\ files[f].exhausted
              /\ \A i \in 1..Len(files[f].recs) :
                    (Selected(<<f, i>>) /\ ~sink_failed) => HasLine(Stream, <<f, i>>)
    /\ out_opened =>
          \A j \in 1..Len(Stream), k \in 1..Len(Stream) :
              (j < k /\ IsPayload(Stream[j]) /\ IsPayload(Stream[k])) =>
                  Stream[j][1] <= Stream[k][1]

\* C18's case: the second file of a directory is being worked on by the pool
\* and has a line in the sink, after the line of the first file
C18_Witness ==
    /\ pc = "par"
    /\ cur = 2
    /\ HasLine(Stream, <<1, 1>>)
    /\ HasLine(Stream, <<2, 1>>)
    /\ \E w \in Workers : wpc[w] = "idle"


\* the input is a directory that was read to its end without an error and
\* without an entry of the extension evtx
NothingToProcess ==
    /\ input_kind = "dir"
    /\ pc \in {"complete", "drop", "exit"}
    /\ \A k \in 1..Len(entries) : entries[k] \notin {"evtx", "error"}

\* C19: when the input path has been examined the output file is already
\* open and what it held before is gone; a run whose input path is neither a
\* file nor a directory, or is a directory without an entry to process, opens
\* no source file and writes nothing, cannot fail any more, and ends with
\* Ok(()) and an output file that exists and is empty.
C19_EmptyOutput ==
    /\ input_kind # "unknown" => (out_opened /\ Occurrences(disk, OLD) = 0)
    /\ (input_kind = "invalid" \/ NothingToProcess) =>
          /\ files = <<>>
          /\ Stream = <<>>
          /\ ~sink_failed
          /\ status \in {"running", "ok"}
          /\ pc = "exit" => status = "ok"

\* C19's case: the run on an input path that is neither a file nor a
\* directory is over, with the output file emptied
C19_Witness ==
    /\ pc = "exit"
    /\ input_kind = "invalid"
    /\ status = "ok"
    /\ out_opened
    /\ disk = <<>>

====
